---- MODULE Spec2Model ----
(***************************************************************************)
(* Model of the subtitle-to-speech sync engine of src/bot.py:              *)
(* srt_to_audio (the cue loop), generate_tts (cache + retrying             *)
(* synthesizer) and fit_audio_to_slot (post-hoc compression).              *)
(*                                                                         *)
(* Audio is represented by its length in milliseconds (what len() of an    *)
(* AudioSegment returns) plus its origin; text is a sequence of tokens     *)
(* (one character each, or one markup tag).  One job runs; it is split     *)
(* into steps at the awaits of the synthesis call and of the retry sleep.  *)
(***************************************************************************)
EXTENDS Integers, Sequences, FiniteSets, TLC

VARIABLES subs, voice, i, final_audio, current_timeline_pos, cache,
          pc, attempt, req, temp_files, exported,
          slept,                               \* the waits of the current generate_tts call
          clock, now, last_ui_update, ui_updates, \* the progress updates of the cue loop
          in_chars, in_slot, out_rate,         \* the rate selection on its own
          jobs, running                        \* two srt_to_audio jobs at once

\* The state of one srt_to_audio job as modelled by Spec and FairSpec.
main == <<subs, voice, i, final_audio, current_timeline_pos, cache,
          pc, attempt, req, temp_files, exported, slept>>

\* The state of the specifications UiSpec, RateSpec and TwoJobSpec.
side == <<clock, now, last_ui_update, ui_updates, in_chars, in_slot,
          out_rate, jobs, running>>

vars == <<main, side>>

(***************************** bounds and inputs ***************************)

\* Largest number of cues in the parsed subtitle file.
MaxCues == 2

\* Largest number of cues of a job whose progress updates are followed, and
\* the seconds of clock time that may pass during it.
MaxUiCues == 4
MaxElapsed == 8

\* Longest preprocessed text (characters) the rate selection is applied to.
MaxChars == 30

\* Program constants (src/bot.py).
RETRY_COUNT == 3
RETRY_DELAY == 1
UiInterval == 3
FallbackMs == 500
MaxRatio == 2

\* Constants of the specification's planner that the code does not have.
AdaptiveBreathCap == 800
MinEstimateMs == 400
CharsPerSecond == 14
MaxSpeedPercent == 150
MergeGapMs == 500

\* A pysrt SubRipTime.
Time(h, m, s, ms) == [hours |-> h, minutes |-> m, seconds |-> s, milliseconds |-> ms]

T0 == Time(0, 0, 0, 0)
T400 == Time(0, 0, 0, 400)
T1000 == Time(0, 0, 1, 0)
T1400 == Time(0, 0, 1, 400)

\* (start, end) pairs of the sample cues: slots of 400, 1000, 600 and 400 ms,
\* a zero-width cue and a cue that ends before it starts.
Spans == { <<T0, T400>>, <<T0, T1000>>, <<T400, T1000>>, <<T1000, T1400>>,
           <<T400, T400>>, <<T1000, T400>> }

\* Raw cue texts, each the sequence of its characters.  TextBlank
\* ("<<b>i>[ ]\r", where removing "<b>" leaves an "<i>" for the later pass)
\* normalizes to the empty text, TextTiny to the 3 characters "Ok.",
\* TextShort to the 7 characters "Go now.", TextLong to the 14 characters
\* "Hi.\n Come here".
TextBlank == << "<", "<", "b", ">", "i", ">", "[", " ", "]", "\r" >>
TextTiny == << "<", "i", ">", "O", "k", ".", "<", "/", "i", ">", "U+00A0" >>
TextShort ==
    << "<", "b", ">", "G", "o", " ", "n", "o", "w", ".", "<", "/", "b", ">" >>
TextLong == << "(", "H", "i", ")", ".", " ", "C", "o", "m", "e", " ", "h", "e", "r", "e" >>

SampleCues ==
    { [start |-> sp[1], end |-> sp[2], text |-> t] :
          sp \in Spans, t \in {TextShort, TextLong} }
    \cup { [start |-> sp[1], end |-> sp[2], text |-> TextBlank] :
          sp \in { <<T0, T400>>, <<T400, T1000>> } }
    \cup { [start |-> sp[1], end |-> sp[2], text |-> TextTiny] :
          sp \in { <<T0, T400>>, <<T1000, T1400>> } }

CueLists == UNION { [1..n -> SampleCues] : n \in 0..MaxCues }

\* The cues of the lists that liveness is checked over: the same text in two
\* slots of 400 ms (the second a cache hit), a long text in a 600 ms slot, a
\* zero-width cue and a cue without text.
LiveCues ==
    { [start |-> T0, end |-> T400, text |-> TextShort],
      [start |-> T1000, end |-> T1400, text |-> TextShort],
      [start |-> T400, end |-> T1000, text |-> TextLong],
      [start |-> T400, end |-> T400, text |-> TextLong],
      [start |-> T0, end |-> T400, text |-> TextBlank] }

LiveCueLists == UNION { [1..n -> LiveCues] : n \in 0..MaxCues }

Voices == { "my-MM-ThihaNeural" }

\* Lengths (ms) of the audio the synthesis service may return.
AudioLens == { 300, 1500 }

(******************************* pure functions ****************************)

srt_time_to_ms(t) ==
    (t.hours * 3600 + t.minutes * 60 + t.seconds) * 1000 + t.milliseconds

\* Lines 153-154: the strings replaced by "", in the order of the passes.
Removed ==
    << << "<", "b", ">" >>, << "<", "/", "b", ">" >>,
       << "<", "i", ">" >>, << "<", "/", "i", ">" >>,
       << "[" >>, << "]" >>, << "(" >>, << ")" >> >>

\* Line 155: the characters str.strip() removes, i.e. those str.isspace()
\* holds of; "U+000B" stands for the character of that code point.
Whitespace ==
    { "\t", "\n", "U+000B", "\f", "\r", "U+001C", "U+001D", "U+001E", "U+001F",
      " ", "U+0085", "U+00A0", "U+1680", "U+2000", "U+2001", "U+2002",
      "U+2003", "U+2004", "U+2005", "U+2006", "U+2007", "U+2008", "U+2009",
      "U+200A", "U+2028", "U+2029", "U+202F", "U+205F", "U+3000" }

\* The positions of s at which an occurrence of old starts.
Occurrences(s, old) ==
    { k \in 1..(Len(s) - Len(old) + 1) :
        \A j \in 1..Len(old) : s[k + j - 1] = old[j] }

RECURSIVE Replace(_, _, _)
\* s.replace(old, new): every occurrence of old, found from the left and not
\* overlapping, becomes new; old is not empty.
Replace(s, old, new) ==
    IF Occurrences(s, old) = { } THEN s
    ELSE \* the leftmost occurrence, then the rest of s after it
         CHOOSE r \in
             { SubSeq(s, 1, k - 1) \o new
                   \o Replace(SubSeq(s, k + Len(old), Len(s)), old, new) :
               k \in { m \in Occurrences(s, old) :
                          \A n \in Occurrences(s, old) : m <= n } } : TRUE

RECURSIVE RemoveAll(_, _)
\* Lines 153-154: one pass of replace(old, "") after the other, each on the
\* string the pass before it returned; S holds that one string.
RemoveAll(S, olds) ==
    IF olds = << >> THEN S
    ELSE RemoveAll({ Replace(s, Head(olds), << >>) : s \in S }, Tail(olds))

RECURSIVE LStrip(_)
LStrip(s) ==
    IF s # << >> /\ Head(s) \in Whitespace THEN LStrip(Tail(s)) ELSE s

RECURSIVE RStrip(_)
RStrip(s) ==
    IF s # << >> /\ s[Len(s)] \in Whitespace
    THEN RStrip(SubSeq(s, 1, Len(s) - 1)) ELSE s

Strip(s) == RStrip(LStrip(s))

\* Lines 151-155.  "U+104B" stands for the Myanmar full stop the code names.
preprocess_text(text) ==
    CHOOSE r \in
        { Strip(c) :
            c \in { Replace(b, << "." >>, << ".", "\n" >>) :
                b \in { Replace(a, << "U+104B" >>, << "U+104B", "\n" >>) :
                    a \in RemoveAll({ text }, Removed) } } } : TRUE

\* RateFor with a top tier of "+80%".
RateForTop80(char_count, slot_duration) ==
    IF char_count * 1000 > 25 * slot_duration THEN "+80%"
    ELSE IF char_count * 1000 > 20 * slot_duration THEN "+40%"
    ELSE IF char_count * 1000 > 15 * slot_duration THEN "+20%"
    ELSE "+0%"

\* RateFor with the first threshold at 13 characters per second.
RateForFrom13(char_count, slot_duration) ==
    IF char_count * 1000 > 25 * slot_duration THEN "+60%"
    ELSE IF char_count * 1000 > 20 * slot_duration THEN "+40%"
    ELSE IF char_count * 1000 > 13 * slot_duration THEN "+20%"
    ELSE "+0%"

RECURSIVE Pow2(_)
Pow2(k) == IF k = 0 THEN 1 ELSE 2 * Pow2(k - 1)

RECURSIVE Pow2Mod(_, _)
\* 2^k modulo m
Pow2Mod(k, m) == IF k = 0 THEN 1 % m ELSE (2 * Pow2Mod(k - 1, m)) % m

RECURSIVE ExpUp(_, _)
ExpUp(ms, e) == IF ms >= 1000 * Pow2(e + 1) THEN ExpUp(ms, e + 1) ELSE e

RECURSIVE ExpDown(_, _)
ExpDown(ms, k) == IF ms * Pow2(k) < 1000 THEN ExpDown(ms, k + 1) ELSE k

\* The binary exponent e of the double ms / 1000: 2^e <= ms / 1000 < 2^(e+1).
Exp2Floor(ms) == IF ms >= 1000 THEN ExpUp(ms, 0) ELSE 0 - ExpDown(ms, 0)

RECURSIVE Log2Floor(_)
Log2Floor(n) == IF n < 2 THEN 0 ELSE 1 + Log2Floor(n \div 2)

\* Line 198 in IEEE double arithmetic, for a density that is exactly the
\* threshold: slot_duration / 1000 is rounded to 53 bits, and when it is
\* rounded down by the residue r (of ms * 2^(52-e) modulo 1000) the quotient
\* char_count / (slot_duration / 1000) is rounded to the double above the
\* threshold exactly when r * threshold * 2^(e+1) >= ms * 2^Log2Floor(threshold).
FloatLifts(ms, threshold) ==
    LET e == Exp2Floor(ms)
        g == Log2Floor(threshold) - e - 1
        r == ((ms % 1000) * Pow2Mod(52 - e, 1000)) % 1000
    IN /\ r > 0
       /\ r < 500
       /\ r * threshold * (IF g < 0 THEN Pow2(0 - g) ELSE 1)
             >= ms * (IF g > 0 THEN Pow2(g) ELSE 1)

\* Lines 198 and 201-203: chars_per_sec > threshold, where chars_per_sec is
\* the double char_count / (slot_duration / 1000).  Line 193 lets only a
\* positive slot_duration through.
Above(char_count, slot_duration, threshold) ==
    \/ char_count * 1000 > threshold * slot_duration
    \/ /\ slot_duration > 0
       /\ char_count * 1000 = threshold * slot_duration
       /\ FloatLifts(slot_duration, threshold)

\* Lines 195-203: the rate tier of the character density.  The density is
\* computed in floating point, so a density of exactly 15, 20 or 25 can come
\* out above the threshold (21 characters in 1400 ms give
\* 15.000000000000002 and "+20%").
RateFor(char_count, slot_duration) ==
    IF Above(char_count, slot_duration, 25) THEN "+60%"
    ELSE IF Above(char_count, slot_duration, 20) THEN "+40%"
    ELSE IF Above(char_count, slot_duration, 15) THEN "+20%"
    ELSE "+0%"

\* The percentage a rate string of the form "+N%" stands for.
RatePercent(rate_str) ==
    CASE rate_str = "+0%" -> 0
      [] rate_str = "+20%" -> 20
      [] rate_str = "+40%" -> 40
      [] rate_str = "+60%" -> 60
      [] rate_str = "+80%" -> 80
      [] OTHER -> 100

Min(a, b) == IF a <= b THEN a ELSE b

Max(a, b) == IF a >= b THEN a ELSE b

\* AudioSegment.silent(duration=ms)
Silent(ms) == [kind |-> "silent", len |-> ms, fit |-> "raw"]

\* The audio decoded from a successful synthesis call.
Synth(ms) == [kind |-> "tts", len |-> ms, fit |-> "raw"]

\* audio_seg[:ms]
Slice(audio, ms, how) == [audio EXCEPT !.len = Min(audio.len, ms), !.fit = how]

\* Lines 135-139: ratio = current_dur / max_duration_ms capped at 2.0,
\* as <<numerator, denominator>>.
Ratio(current_dur, max_duration_ms) ==
    IF current_dur > MaxRatio * max_duration_ms
    THEN << MaxRatio, 1 >>
    ELSE << current_dur, max_duration_ms >>

\* Line 143, effects.speedup: the library either raises (the segment is too
\* short to be chunked) or returns a segment whose length lies between the
\* nominal len/ratio and the input's length; both ends are outcomes here.
Speedup(audio, ratio) ==
    { [audio EXCEPT !.fit = "raise"] } \cup
    { [audio EXCEPT !.len = n, !.fit = "compressed"] :
        n \in { (audio.len * ratio[2] + ratio[1] - 1) \div ratio[1], audio.len } }

\* fit_audio_to_slot without the trim of line 145.
fit_audio_to_slot_untrimmed(audio_seg, max_duration_ms) ==
    IF audio_seg.len <= max_duration_ms
    THEN { audio_seg }
    ELSE { IF c.fit = "raise"
           THEN Slice(audio_seg, max_duration_ms, "panic")
           ELSE c
           : c \in Speedup(audio_seg, Ratio(audio_seg.len, max_duration_ms)) }

\* fit_audio_to_slot whose fallback returns the whole segment.
fit_audio_to_slot_uncut(audio_seg, max_duration_ms) ==
    IF audio_seg.len <= max_duration_ms
    THEN { audio_seg }
    ELSE { IF c.fit = "raise"
           THEN [audio_seg EXCEPT !.fit = "panic"]
           ELSE IF c.len > max_duration_ms
                THEN Slice(c, max_duration_ms, "trimmed")
                ELSE c
           : c \in Speedup(audio_seg, Ratio(audio_seg.len, max_duration_ms)) }

\* fit_audio_to_slot: the set of segments it may return.
fit_audio_to_slot(audio_seg, max_duration_ms) ==
    IF audio_seg.len <= max_duration_ms
    THEN { audio_seg }
    ELSE { IF c.fit = "raise"
           THEN Slice(audio_seg, max_duration_ms, "panic")
           ELSE IF c.len > max_duration_ms
                THEN Slice(c, max_duration_ms, "trimmed")
                ELSE c
           : c \in Speedup(audio_seg, Ratio(audio_seg.len, max_duration_ms)) }

(****************************** the cue loop *******************************)

\* The cue the loop is at (i counts from 0, as enumerate does).
Sub == subs[i + 1]

\* The cue's text joined by a space with the next cue's text.
TextMerged ==
    IF i + 1 < Len(subs)
    THEN preprocess_text(Sub.text) \o << " " >> \o preprocess_text(subs[i + 2].text)
    ELSE preprocess_text(Sub.text)

\* Line 174
Text == preprocess_text(Sub.text)

StartMs == srt_time_to_ms(Sub.start)

EndMs == srt_time_to_ms(Sub.end)

\* The gap fill with the silence capped at the breathing cap.
SilenceGapCapped(start_ms, pos) ==
    IF start_ms > pos THEN Min(start_ms - pos, AdaptiveBreathCap) ELSE 0

\* Lines 181-184: the silence that fills the gap up to the cue's start.
SilenceGap(start_ms, pos) == IF start_ms > pos THEN start_ms - pos ELSE 0

\* The slot without the cut at an overlapping next cue.
SlotAtUncut(n) ==
    srt_time_to_ms(subs[n + 1].end) - srt_time_to_ms(subs[n + 1].start)

\* The slot cut at the end, not the start, of the next cue.
SlotAtNextEnd(n) ==
    IF n + 1 < Len(subs)
       /\ srt_time_to_ms(subs[n + 2].end) < srt_time_to_ms(subs[n + 1].end)
    THEN srt_time_to_ms(subs[n + 2].end) - srt_time_to_ms(subs[n + 1].start)
    ELSE srt_time_to_ms(subs[n + 1].end) - srt_time_to_ms(subs[n + 1].start)

\* Lines 187-191: the slot of the cue at index n (from 0), cut at the start
\* of an overlapping next cue.
SlotAt(n) ==
    IF n + 1 < Len(subs)
       /\ srt_time_to_ms(subs[n + 2].start) < srt_time_to_ms(subs[n + 1].end)
    THEN srt_time_to_ms(subs[n + 2].start) - srt_time_to_ms(subs[n + 1].start)
    ELSE srt_time_to_ms(subs[n + 1].end) - srt_time_to_ms(subs[n + 1].start)

SlotDuration == SlotAt(i)

\* The skip test with a strict comparison.
SlotSkippedStrict(slot_duration) == slot_duration < 0

\* Line 193: the cue is skipped.
SlotSkipped(slot_duration) == slot_duration <= 0

Key(text, v, rate_str) == << text, v, rate_str >>

\* A lookup that never finds the key.
InCacheNever(key) == FALSE

\* Line 105: key in cache
InCache(key) == key \in DOMAIN cache

CacheKey == Key(Text, voice, RateFor(Len(Text), SlotDuration))

Segment(kind, audio, cue) ==
    [kind |-> kind, len |-> audio.len, src |-> audio.kind, fit |-> audio.fit, cue |-> cue]

\* The buffer after the gap fill of the cue at i.
Filled ==
    IF SilenceGap(StartMs, current_timeline_pos) > 0
    THEN Append(final_audio,
                Segment("silence", Silent(SilenceGap(StartMs, current_timeline_pos)), i))
    ELSE final_audio

\* The cursor set to the cue's start without the test of line 181.
FilledPosUnguarded == StartMs

\* Lines 181-184: the cursor after the gap fill.
FilledPos == current_timeline_pos + SilenceGap(StartMs, current_timeline_pos)

NoReq == [text |-> << >>, rate_str |-> "+0%", slot |-> 0]

\* UiSpec, RateSpec and TwoJobSpec not started.
SideIdle ==
    /\ clock = 0
    /\ now = 0
    /\ last_ui_update = 0
    /\ ui_updates = << >>
    /\ in_chars = 0
    /\ in_slot = 0
    /\ out_rate = ""
    /\ jobs = << >>
    /\ running = 0

\* Lines 157-164: a job that srt_to_audio has just set up.
JobInit(cue_lists) ==
    /\ subs \in cue_lists
    /\ voice \in Voices
    /\ i = 0
    /\ final_audio = << >>
    /\ current_timeline_pos = 0
    /\ cache = << >>
    /\ pc = "loop"
    /\ attempt = 0
    /\ req = NoReq
    /\ temp_files = 0
    /\ exported = -1
    /\ slept = << >>

\* Lines 158-164: the state when the loop starts, for a parsed cue list.
InitWith(cue_lists) ==
    /\ JobInit(cue_lists)
    /\ SideIdle

Init == InitWith(CueLists)

LiveInit == InitWith(LiveCueLists)

\* Lines 174-175: a cue whose text normalizes to nothing.
SkipEmpty ==
    /\ pc = "loop" /\ i < Len(subs)
    /\ Text = << >>
    /\ i' = i + 1
    /\ UNCHANGED <<subs, voice, final_audio, current_timeline_pos, cache, pc,
                   attempt, req, temp_files, exported, slept>>
    /\ UNCHANGED side

\* Lines 177-193: gap fill, then a slot that is not positive.
SkipSlot ==
    /\ pc = "loop" /\ i < Len(subs)
    /\ Text # << >>
    /\ SlotSkipped(SlotDuration)
    /\ final_audio' = Filled
    /\ current_timeline_pos' = FilledPos
    /\ i' = i + 1
    /\ UNCHANGED <<subs, voice, cache, pc, attempt, req, temp_files, exported,
                   slept>>
    /\ UNCHANGED side

\* Lines 207-211 with the audio generate_tts returned for the request req.
AppendSpeech(buffer, pos, raw_audio, slot) ==
    \E fitted \in fit_audio_to_slot(raw_audio, slot) :
        /\ final_audio' = Append(buffer, Segment("speech", fitted, i))
        /\ current_timeline_pos' = pos + fitted.len
        /\ i' = i + 1

\* Lines 177-211 when generate_tts finds the key in the cache (line 105).
CacheHit ==
    /\ pc = "loop" /\ i < Len(subs)
    /\ Text # << >>
    /\ ~SlotSkipped(SlotDuration)
    /\ InCache(CacheKey)
    /\ AppendSpeech(Filled, FilledPos, cache[CacheKey], SlotDuration)
    /\ UNCHANGED <<subs, voice, cache, pc, attempt, req, temp_files, exported,
                   slept>>
    /\ UNCHANGED side

\* Lines 177-205 and 104-113: a cache miss; the first attempt creates its
\* temp file and its call to the synthesis service is awaited.
CacheMiss ==
    /\ pc = "loop" /\ i < Len(subs)
    /\ Text # << >>
    /\ ~SlotSkipped(SlotDuration)
    /\ ~InCache(CacheKey)
    /\ final_audio' = Filled
    /\ current_timeline_pos' = FilledPos
    /\ req' = [text |-> Text, rate_str |-> RateFor(Len(Text), SlotDuration),
               slot |-> SlotDuration]
    /\ attempt' = 0
    /\ temp_files' = temp_files + 1
    /\ pc' = "tts"
    /\ slept' = << >>
    /\ UNCHANGED <<subs, voice, i, cache, exported>>
    /\ UNCHANGED side

\* Lines 113-118 and 207-211: the call succeeds, the temp file is decoded
\* and removed, the audio is cached and returned, fitted and appended.
TtsSuccess ==
    /\ pc = "tts"
    /\ \E ms \in AudioLens :
          /\ cache' = (Key(req.text, voice, req.rate_str) :> Synth(ms)) @@ cache
          /\ AppendSpeech(final_audio, current_timeline_pos, Synth(ms), req.slot)
    /\ temp_files' = temp_files - 1
    /\ pc' = "loop"
    /\ attempt' = 0
    /\ req' = NoReq
    /\ UNCHANGED <<subs, voice, exported, slept>>
    /\ UNCHANGED side

\* A wait that grows with the attempt.
RetryDelayGrowing(n) == RETRY_DELAY * (n + 1)

\* Line 121: the seconds generate_tts waits after failed attempt n (from 0).
RetryDelay(n) == RETRY_DELAY

\* Lines 113-121: the call (or the decoding of its file) raises, so the
\* attempt's temp file is not removed; the retry delay is awaited.
TtsFail ==
    /\ pc = "tts"
    /\ pc' = "sleep"
    /\ slept' = Append(slept, RetryDelay(attempt))
    /\ UNCHANGED <<subs, voice, i, final_audio, current_timeline_pos, cache,
                   attempt, req, temp_files, exported>>
    /\ UNCHANGED side

\* The retry loop with one attempt more.
TtsRetryOnceMore ==
    /\ pc = "sleep"
    /\ attempt + 1 < RETRY_COUNT + 1
    /\ attempt' = attempt + 1
    /\ temp_files' = temp_files + 1
    /\ pc' = "tts"
    /\ UNCHANGED <<subs, voice, i, final_audio, current_timeline_pos, cache,
                   req, exported, slept>>
    /\ UNCHANGED side

\* Lines 107-113: the next attempt of the retry loop creates its temp file
\* and awaits the call.
TtsRetry ==
    /\ pc = "sleep"
    /\ attempt + 1 < RETRY_COUNT
    /\ attempt' = attempt + 1
    /\ temp_files' = temp_files + 1
    /\ pc' = "tts"
    /\ UNCHANGED <<subs, voice, i, final_audio, current_timeline_pos, cache,
                   req, exported, slept>>
    /\ UNCHANGED side

\* generate_tts raising once the attempts are used up: the exception leaves
\* srt_to_audio.
TtsFallbackRaises ==
    /\ pc = "sleep"
    /\ attempt + 1 >= RETRY_COUNT
    /\ pc' = "failed"
    /\ UNCHANGED <<subs, voice, i, final_audio, current_timeline_pos, cache,
                   attempt, req, temp_files, exported, slept>>
    /\ UNCHANGED side

\* The fallback silence stored in the cache before it is returned.
TtsFallbackCached ==
    /\ pc = "sleep"
    /\ attempt + 1 >= RETRY_COUNT
    /\ cache' = (Key(req.text, voice, req.rate_str) :> Silent(FallbackMs)) @@ cache
    /\ \E fitted \in fit_audio_to_slot(Silent(FallbackMs), req.slot) :
        /\ final_audio' = Append(final_audio, [kind |-> "speech", len |-> fitted.len,
                                  src |-> fitted.kind, fit |-> fitted.fit, cue |-> i])
        /\ current_timeline_pos' = current_timeline_pos + fitted.len
        /\ i' = i + 1
    /\ pc' = "loop"
    /\ attempt' = 0
    /\ req' = NoReq
    /\ UNCHANGED <<subs, voice, temp_files, exported, slept>>
    /\ UNCHANGED side

\* Line 123 and 207-211: the attempts are used up; the fallback silence is
\* returned, fitted and appended.
TtsFallback ==
    /\ pc = "sleep"
    /\ attempt + 1 >= RETRY_COUNT
    /\ AppendSpeech(final_audio, current_timeline_pos, Silent(FallbackMs), req.slot)
    /\ pc' = "loop"
    /\ attempt' = 0
    /\ req' = NoReq
    /\ UNCHANGED <<subs, voice, cache, temp_files, exported, slept>>
    /\ UNCHANGED side

RECURSIVE Duration(_)
\* len() of the buffer: the sum of the lengths of its segments.
Duration(buffer) ==
    IF buffer = << >> THEN 0
    ELSE buffer[Len(buffer)].len + Duration(SubSeq(buffer, 1, Len(buffer) - 1))

\* Lines 213-214: the loop is over; the buffer is exported.
Export ==
    /\ pc = "loop" /\ i = Len(subs)
    /\ exported' = Duration(final_audio)
    /\ pc' = "done"
    /\ UNCHANGED <<subs, voice, i, final_audio, current_timeline_pos, cache,
                   attempt, req, temp_files, slept>>
    /\ UNCHANGED side

Next ==
    \/ SkipEmpty
    \/ SkipSlot
    \/ CacheHit
    \/ CacheMiss
    \/ TtsSuccess
    \/ TtsFail
    \/ TtsRetry
    \/ TtsFallback
    \/ Export

Spec == Init /\ [][Next]_vars

\* Every step is a step of the one coroutine the event loop runs: a pending
\* step is eventually taken.
FairSpec == LiveInit /\ [][Next]_vars /\ WF_vars(Next)

(*************************** progress updates ******************************)

\* The cue loop as the progress sink sees it: lines 164-172 of every
\* iteration, step by step, with the clock running while the job works or is
\* suspended; what the rest of the iteration does to the buffer is in Spec.
\* pc is "loop" at line 166, "update" while update_status is awaited (line
\* 171) and "body" from line 174 on.  Times are whole seconds.

\* time.time() when the job starts.
ClockStart == 1000

\* Cue lists of 1..MaxUiCues cues; the updates do not depend on the cues.
UiCueLists ==
    UNION { [1..n -> { [start |-> T0, end |-> T400, text |-> TextShort] }]
            : n \in 1..MaxUiCues }

\* The throttle that lets an update through after 3 seconds already.
UiDueFrom3(read, last) == read - last >= UiInterval

\* Line 169: now - last_ui_update > 3
UiDue(read, last) == read - last > UiInterval

\* Lines 157-164
UiInit ==
    /\ JobInit(UiCueLists)
    /\ clock = ClockStart
    /\ now = 0
    /\ last_ui_update = 0
    /\ ui_updates = << >>
    /\ in_chars = 0
    /\ in_slot = 0
    /\ out_rate = ""
    /\ jobs = << >>
    /\ running = 0

\* Clock time passes, while the job runs or is suspended in an await.
UiTick ==
    /\ i < Len(subs)
    /\ \E d \in 1..(UiInterval + 1) :
        /\ clock + d <= ClockStart + MaxElapsed
        /\ clock' = clock + d
    /\ UNCHANGED <<main, now, last_ui_update, ui_updates, in_chars, in_slot,
                   out_rate, jobs, running>>

\* Lines 168-171: the iteration reads the clock, finds the update due and
\* calls update_status, which issues the edit and is suspended in it (line
\* 93); last_ui_update is not yet set.
UiUpdate ==
    /\ pc = "loop" /\ i < Len(subs)
    /\ UiDue(clock, last_ui_update)
    /\ now' = clock
    /\ ui_updates' = Append(ui_updates, [now |-> clock, line |-> i + 1])
    /\ pc' = "update"
    /\ UNCHANGED <<subs, voice, i, final_audio, current_timeline_pos, cache,
                   attempt, req, temp_files, exported, slept>>
    /\ UNCHANGED <<clock, last_ui_update, in_chars, in_slot, out_rate, jobs,
                   running>>

\* Line 172: update_status has returned; the time read at line 168 is noted
\* and the rest of the iteration starts.
UiUpdated ==
    /\ pc = "update"
    /\ last_ui_update' = now
    /\ pc' = "body"
    /\ UNCHANGED <<subs, voice, i, final_audio, current_timeline_pos, cache,
                   attempt, req, temp_files, exported, slept>>
    /\ UNCHANGED <<clock, now, ui_updates, in_chars, in_slot, out_rate, jobs,
                   running>>

\* Lines 168-169: the iteration reads the clock and finds no update due; the
\* rest of the iteration starts.
UiQuiet ==
    /\ pc = "loop" /\ i < Len(subs)
    /\ ~UiDue(clock, last_ui_update)
    /\ now' = clock
    /\ pc' = "body"
    /\ UNCHANGED <<subs, voice, i, final_audio, current_timeline_pos, cache,
                   attempt, req, temp_files, exported, slept>>
    /\ UNCHANGED <<clock, last_ui_update, ui_updates, in_chars, in_slot,
                   out_rate, jobs, running>>

\* Lines 174-211: the rest of the iteration, with its awaits (lines 113 and
\* 121) during which the clock runs, comes to its end.
UiIterationEnd ==
    /\ pc = "body"
    /\ i' = i + 1
    /\ pc' = "loop"
    /\ UNCHANGED <<subs, voice, final_audio, current_timeline_pos, cache,
                   attempt, req, temp_files, exported, slept>>
    /\ UNCHANGED side

UiNext ==
    \/ UiTick
    \/ UiUpdate
    \/ UiUpdated
    \/ UiQuiet
    \/ UiIterationEnd

UiSpec == UiInit /\ [][UiNext]_vars

(****************************** rate selection *****************************)

\* Lines 197-203 on their own: the rate string chosen for a text of in_chars
\* characters (not empty, line 175) and a slot of in_slot ms (positive, line
\* 193).

\* Slots (ms); a text of 21 characters has density 15 in the slot of 1400
\* ms, one of 28 characters density 20, one of 30 characters density 25 in
\* the slot of 1200 ms.
RateSlots == { 400, 1000, 1200, 1400, 2000 }

RateInit ==
    /\ JobInit({ << >> })
    /\ in_chars \in 1..MaxChars
    /\ in_slot \in RateSlots
    /\ out_rate = ""
    /\ clock = 0
    /\ now = 0
    /\ last_ui_update = 0
    /\ ui_updates = << >>
    /\ jobs = << >>
    /\ running = 0

\* Lines 197-203
SelectRate ==
    /\ out_rate = ""
    /\ out_rate' = RateFor(in_chars, in_slot)
    /\ UNCHANGED <<main, clock, now, last_ui_update, ui_updates, in_chars,
                   in_slot, jobs, running>>

RateNext == SelectRate

RateSpec == RateInit /\ [][RateNext]_vars

(******************************** two jobs *********************************)

\* Two srt_to_audio calls on the one event loop.  The variables of Spec hold
\* the locals of the call that is running, jobs the locals of the call that
\* is suspended; the files on disk (temp_files) belong to neither.

JobIds == { 1, 2 }

Other(j) == CHOOSE k \in JobIds : k # j

\* The cue lists of the two jobs: a text repeated in a slot of the same
\* length (a cache hit within the job), the same text alone, and a cue
\* without text followed by a zero-width cue.
TwoJobCueLists ==
    { << [start |-> T0, end |-> T400, text |-> TextShort],
         [start |-> T1000, end |-> T1400, text |-> TextShort] >>,
      << [start |-> T0, end |-> T400, text |-> TextShort] >>,
      << [start |-> T0, end |-> T400, text |-> TextBlank],
         [start |-> T400, end |-> T400, text |-> TextLong] >> }

\* Lines 157-164 and 102-107: the locals of a call.
Locals(s, v, n, buffer, pos, c, at, a, r, e, w) ==
    [subs |-> s, voice |-> v, i |-> n, final_audio |-> buffer,
     current_timeline_pos |-> pos, cache |-> c, pc |-> at, attempt |-> a,
     req |-> r, exported |-> e, slept |-> w]

\* The locals of the running call.
Frame ==
    Locals(subs, voice, i, final_audio, current_timeline_pos, cache, pc,
           attempt, req, exported, slept)

\* Lines 157-164: the locals of a call that has set up its buffer, cursor
\* and cache.
NewFrames ==
    { Locals(s, v, 0, << >>, 0, << >>, "loop", 0, NoReq, -1, << >>)
      : s \in TwoJobCueLists, v \in Voices }

\* One dictionary used by every call.
ResumedCacheShared(frame) == cache

\* Line 163: cache is a local of the call, so a resumed call goes on with
\* the dictionary it created.
ResumedCache(frame) == frame.cache

TwoJobInit ==
    /\ JobInit(TwoJobCueLists)
    /\ running = 1
    /\ jobs \in [{ 2 } -> NewFrames]
    /\ clock = 0
    /\ now = 0
    /\ last_ui_update = 0
    /\ ui_updates = << >>
    /\ in_chars = 0
    /\ in_slot = 0
    /\ out_rate = ""

\* The running call is suspended at an await (lines 113, 121, 171, 213) or
\* has returned, and the event loop resumes the other call.
Switch ==
    /\ running \in JobIds
    /\ LET next == jobs[Other(running)]
       IN /\ subs' = next.subs
          /\ voice' = next.voice
          /\ i' = next.i
          /\ final_audio' = next.final_audio
          /\ current_timeline_pos' = next.current_timeline_pos
          /\ cache' = ResumedCache(next)
          /\ pc' = next.pc
          /\ attempt' = next.attempt
          /\ req' = next.req
          /\ exported' = next.exported
          /\ slept' = next.slept
    /\ jobs' = (running :> Frame)
    /\ running' = Other(running)
    /\ UNCHANGED <<temp_files, clock, now, last_ui_update, ui_updates,
                   in_chars, in_slot, out_rate>>

TwoJobNext ==
    \/ SkipEmpty
    \/ SkipSlot
    \/ CacheHit
    \/ CacheMiss
    \/ TtsSuccess
    \/ TtsFail
    \/ TtsRetry
    \/ TtsFallback
    \/ Export
    \/ Switch

TwoJobSpec == TwoJobInit /\ [][TwoJobNext]_vars

(********************************* claims **********************************)

\* Index sets of the buffer's segments.
SpeechIdx == { k \in 1..Len(final_audio) : final_audio[k].kind = "speech" }

SilenceIdx == { k \in 1..Len(final_audio) : final_audio[k].kind = "silence" }

\* The buffer offset at which segment k was appended.
Offset(k) == Duration(SubSeq(final_audio, 1, k - 1))

CueStart(n) == srt_time_to_ms(subs[n + 1].start)

CueEnd(n) == srt_time_to_ms(subs[n + 1].end)

\* preprocess_text of every raw text the cue lists are made of.
RawTexts == { TextBlank, TextTiny, TextShort, TextLong }

Normalized == [t \in RawTexts |-> preprocess_text(t)]

\* preprocess_text(sub.text) of the cue at index n.
CueText(n) == Normalized[subs[n + 1].text]

CueKey(n) == Key(CueText(n), voice, RateFor(Len(CueText(n)), SlotAt(n)))

StartsSorted ==
    \A a, b \in 1..Len(subs) :
        a < b => srt_time_to_ms(subs[a].start) <= srt_time_to_ms(subs[b].start)

\* min(cue end, next cue's start)
SlotLimit(n) ==
    IF n + 1 < Len(subs) THEN Min(CueEnd(n), CueStart(n + 1)) ELSE CueEnd(n)

\* The length of the audio generate_tts returned for speech segment k.
RawLen(k) ==
    IF final_audio[k].src = "silent" THEN FallbackMs
    ELSE cache[CueKey(final_audio[k].cue)].len

\* The loop is at a cue with text, before its gap fill.
AtCue == pc = "loop" /\ i < Len(subs) /\ Text # << >>

\* C1: the timeline cursor never decreases from one step to the next, and in
\* every reachable state it does not exceed the total length of the silence
\* and speech segments appended to the buffer so far.
C1_CursorMonotone ==
    /\ [][current_timeline_pos' >= current_timeline_pos]_vars
    /\ [](current_timeline_pos <= Duration(final_audio))

\* C1 witness: the job is done, silence was appended, and a cue that starts
\* before the cursor had its speech appended at the cursor, not at its start.
C1_Witness ==
    /\ pc = "done"
    /\ SilenceIdx # {}
    /\ \E k \in SpeechIdx : Offset(k) > CueStart(final_audio[k].cue)
    /\ current_timeline_pos > 0

\* C2: when the cues' start times are non-decreasing, every synthesized cue
\* has its audio appended at the offset equal to its start, and the cursor
\* after appending it is at most min(cue end, next cue's start).
C2_SpeechAtStart ==
    StartsSorted =>
        \A k \in SpeechIdx :
            /\ Offset(k) = CueStart(final_audio[k].cue)
            /\ Offset(k) + final_audio[k].len <= SlotLimit(final_audio[k].cue)

\* C2 witness: two overlapping cues in start order, both spoken, the first
\* one's audio cut down to the start of the second.
C2_Witness ==
    /\ pc = "done"
    /\ StartsSorted
    /\ Len(subs) = 2
    /\ CueStart(1) < CueEnd(0)
    /\ Cardinality(SpeechIdx) = 2
    /\ \E k \in SpeechIdx : final_audio[k].cue = 0 /\ final_audio[k].fit = "trimmed"

\* C3: every speech segment is at most as long as its cue's slot; audio that
\* fits is appended unchanged, audio that does not is compressed by at most
\* 2.0x and, if still too long, trimmed to exactly the slot.
C3_FitsSlot ==
    \A k \in SpeechIdx :
        LET seg == final_audio[k]
            slot == SlotAt(seg.cue)
        IN /\ seg.len <= slot
           /\ RawLen(k) <= slot => seg.len = RawLen(k) /\ seg.fit = "raw"
           /\ RawLen(k) > slot => seg.fit \in { "compressed", "trimmed", "panic" }
           /\ seg.fit = "compressed" => MaxRatio * seg.len >= RawLen(k)
           /\ seg.fit = "trimmed" => seg.len = slot

\* C3 witness: one cue's audio fitted and was appended as it came, another's
\* was compressed at the capped ratio and trimmed to its slot.
C3_Witness ==
    /\ pc = "done"
    /\ \E k \in SpeechIdx : final_audio[k].fit = "raw" /\ final_audio[k].src = "tts"
    /\ \E k \in SpeechIdx :
          /\ final_audio[k].fit = "trimmed"
          /\ RawLen(k) > MaxRatio * SlotAt(final_audio[k].cue)

\* The third attempt for the current request has failed.
AttemptsExhausted == pc = "sleep" /\ attempt + 1 >= RETRY_COUNT

\* C4: when all 3 attempts for a cue fail nothing is raised: the fallback
\* silence of fixed length (cut to the slot) is appended for the cue, the loop
\* goes on to the next cue, and the job reaches export.
C4_FailSoft ==
    /\ [][AttemptsExhausted =>
            /\ pc' = "loop"
            /\ i' = i + 1
            /\ Len(final_audio') = Len(final_audio) + 1
            /\ final_audio'[Len(final_audio')].src = "silent"
            /\ final_audio'[Len(final_audio')].len = Min(FallbackMs, req.slot)]_vars
    /\ (AttemptsExhausted ~> (pc = "done"))

\* C4 witness: the export happened after a cue got the fallback silence and a
\* later cue was synthesized.
C4_Witness ==
    /\ pc = "done"
    /\ \E k, m \in SpeechIdx :
          /\ k < m
          /\ final_audio[k].src = "silent"
          /\ final_audio[m].src = "tts"

\* C5: at export the exported duration is at least the end time of the last
\* cue.
C5_ExportCoversLastCue ==
    (pc = "done" /\ Len(subs) > 0) => exported >= CueEnd(Len(subs) - 1)

\* C6: a cache hit returns the stored audio with no service call, no temp
\* file and no change of the cache; no call is ever in flight for a key the
\* cache holds.
C6_CacheHitPure ==
    /\ [][(AtCue /\ ~SlotSkipped(SlotDuration) /\ CacheKey \in DOMAIN cache) =>
            /\ pc' = "loop"
            /\ cache' = cache
            /\ temp_files' = temp_files
            /\ attempt' = attempt
            /\ i' = i + 1
            /\ \E f \in fit_audio_to_slot(cache[CacheKey], SlotDuration) :
                  final_audio' = Append(Filled, Segment("speech", f, i))]_vars
    /\ [](pc = "tts" => Key(req.text, voice, req.rate_str) \notin DOMAIN cache)

\* C6 witness: two cues were spoken from a single cached synthesis.
C6_Witness ==
    /\ pc = "done"
    /\ Cardinality(DOMAIN cache) = 1
    /\ Cardinality({ k \in SpeechIdx : final_audio[k].src = "tts" }) = 2

\* C7 as stated: the rate passed to the synthesis service is within
\* [0%, +50%].
C7_RateAtMost50 ==
    pc = "tts" => RatePercent(req.rate_str) \in 0..50

\* C7 as amended: the rate passed to the synthesis service is one of +0%,
\* +20%, +40% and +60%, so within [0%, +60%].
C7_RateAtMost60 ==
    pc = "tts" => RatePercent(req.rate_str) \in { 0, 20, 40, 60 }

\* C7 witness: a call with the rate +60% is in flight.
C7_Witness == pc = "tts" /\ req.rate_str = "+60%" /\ attempt = 0

\* The specification's estimate max(0.4 s, charCount / 14 per second) equals
\* the slot.
EstimateEqualsSlot(char_count, slot_duration) ==
    IF char_count * 1000 <= MinEstimateMs * CharsPerSecond
    THEN slot_duration = MinEstimateMs
    ELSE char_count * 1000 = CharsPerSecond * slot_duration

\* C8: a cue whose estimated duration equals its slot is requested at "+0%".
C8_NaturalFitBoundary ==
    (pc = "tts" /\ EstimateEqualsSlot(Len(req.text), req.slot)) => req.rate_str = "+0%"

\* C8 witness: a call is in flight for a cue whose estimate, above the
\* 0.4 s floor, equals its slot.
C8_Witness ==
    /\ pc = "tts"
    /\ EstimateEqualsSlot(Len(req.text), req.slot)
    /\ Len(req.text) * 1000 > MinEstimateMs * CharsPerSecond

\* C9: a cue whose slot is zero or negative triggers no synthesis call and
\* appends no speech; cursor and buffer change by the gap fill only and the
\* cache is unchanged.
C9_NonPositiveSlotSkipped ==
    /\ [][(AtCue /\ SlotDuration <= 0) =>
            /\ pc' = "loop"
            /\ i' = i + 1
            /\ cache' = cache
            /\ temp_files' = temp_files
            /\ current_timeline_pos' = Max(current_timeline_pos, StartMs)
            /\ final_audio' =
                  IF StartMs > current_timeline_pos
                  THEN Append(final_audio,
                              Segment("silence", Silent(StartMs - current_timeline_pos), i))
                  ELSE final_audio]_vars
    /\ [](\A k \in SpeechIdx : SlotAt(final_audio[k].cue) > 0)
    /\ [](pc \in { "tts", "sleep" } => SlotAt(i) > 0)

\* C9 witness: the first of two cues has a positive width but the second
\* starts no later, so the first got its gap fill and no speech.
C9_Witness ==
    /\ pc = "done"
    /\ Len(subs) = 2
    /\ CueText(0) # << >>
    /\ CueStart(0) < CueEnd(0)
    /\ CueStart(1) <= CueStart(0)
    /\ \E k \in SilenceIdx : final_audio[k].cue = 0
    /\ \A k \in SpeechIdx : final_audio[k].cue # 0

\* C10 as stated: the silence appended before a cue has the length
\* min(cue start - cursor, 800 ms).
C10_SilenceCapped ==
    \A k \in SilenceIdx :
        final_audio[k].len =
            Min(CueStart(final_audio[k].cue) - Offset(k), AdaptiveBreathCap)

\* C10 as amended: the silence appended before a cue has exactly the length
\* cue start - cursor, whatever the gap, and the cursor advances by that
\* amount: the silence ends at the cue's start and the cursor stays equal to
\* the buffer's length.
C10_SilenceFillsGap ==
    /\ \A k \in SilenceIdx :
          /\ final_audio[k].len > 0
          /\ final_audio[k].len = CueStart(final_audio[k].cue) - Offset(k)
    /\ current_timeline_pos = Duration(final_audio)

\* C10 witness: a silence longer than 800 ms is in the buffer.
C10_Witness ==
    \E k \in SilenceIdx : final_audio[k].len > AdaptiveBreathCap

\* The specification's estimate max(0.4 s, charCount / 14 per second), in
\* milliseconds times CharsPerSecond.
EstimateScaled(char_count) == Max(MinEstimateMs * CharsPerSecond, char_count * 1000)

\* The specification's merge condition for the cue at index n: it fits
\* neither naturally nor at the maximum speed-up, and the next cue starts
\* within the merge-gap threshold of its end.
MergeDue(n) ==
    /\ n + 1 < Len(subs)
    /\ CueText(n) # << >> /\ CueText(n + 1) # << >>
    /\ SlotAt(n) > 0 /\ SlotAt(n + 1) > 0
    /\ EstimateScaled(Len(CueText(n))) * 100
          > SlotAt(n) * CharsPerSecond * MaxSpeedPercent
    /\ CueStart(n + 1) - CueEnd(n) \in 0..MergeGapMs

\* The speech segments appended for the cue at index n.
SpeechOf(n) == { k \in SpeechIdx : final_audio[k].cue = n }

\* C11 as stated: a cue that fits neither naturally nor at maximum speed-up
\* and whose successor starts within 500 ms is merged with it: the successor
\* is consumed and gets no speech of its own.
C11_Merged ==
    \A n \in 0..(Len(subs) - 1) : MergeDue(n) => SpeechOf(n + 1) = {}

\* C11 as amended: nothing is merged.  Every call is for the current cue's
\* own text and slot, no speech is longer than its cue's own end - start, and
\* at export every cue with text and a positive slot has exactly one speech
\* segment of its own, every other cue none.
C11_NoMerge ==
    /\ pc = "tts" => req.text = CueText(i) /\ req.slot = SlotAt(i)
    /\ \A k \in SpeechIdx :
          final_audio[k].len
              <= CueEnd(final_audio[k].cue) - CueStart(final_audio[k].cue)
    /\ pc = "done" =>
          \A n \in 0..(Len(subs) - 1) :
              Cardinality(SpeechOf(n))
                  = IF CueText(n) # << >> /\ SlotAt(n) > 0 THEN 1 ELSE 0

\* C11 witness: the job is done, the first cue met the merge condition, and
\* both it and its successor have their own speech.
C11_Witness ==
    /\ pc = "done"
    /\ MergeDue(0)
    /\ SpeechOf(0) # {}
    /\ SpeechOf(1) # {}

\* C12: after generate_tts has returned (the loop is between cues, or the job
\* is done) no temp file of an attempt remains.
C12_NoTempFileLeft ==
    pc \in { "loop", "done" } => temp_files = 0

\* C13: a cache miss makes at most 3 calls to the synthesis service, each
\* either the first for a cue or the retry after a failed one for the same
\* request, and the job reaches export.
C13_BoundedAttempts ==
    /\ [](pc \in { "tts", "sleep" } => attempt + 1 <= RETRY_COUNT)
    /\ [][(pc' = "tts" /\ pc # "tts") =>
            \/ pc = "loop" /\ attempt' = 0
            \/ pc = "sleep" /\ attempt' = attempt + 1 /\ req' = req /\ i' = i]_vars
    /\ <>(pc = "done")

\* C13 witness: the third call for the second cue is in flight.
C13_Witness ==
    pc = "tts" /\ attempt + 1 = RETRY_COUNT /\ i = 1

\* The slot the claim C15 states for the cue at index n.
OverlapSlot(n) ==
    IF n + 1 < Len(subs) /\ CueStart(n + 1) < CueEnd(n)
    THEN CueStart(n + 1) - CueStart(n)
    ELSE CueEnd(n) - CueStart(n)

\* C15: a cue that the next cue overlaps is given the slot next start - start,
\* any other cue end - start; no speech is longer than that slot; and no step
\* at a cue, whether it overlaps, is out of order or starts before the cursor,
\* moves the cursor backward.
C15_OverlapSlot ==
    /\ [](pc = "tts" => req.slot = OverlapSlot(i))
    /\ [](\A k \in SpeechIdx : final_audio[k].len <= OverlapSlot(final_audio[k].cue))
    /\ [][(pc = "loop" /\ i < Len(subs)) =>
              current_timeline_pos' >= current_timeline_pos]_vars

\* C15 witness: a call is in flight for a cue whose slot was cut at the start
\* of the next cue.
C15_Witness ==
    /\ pc = "tts"
    /\ i + 1 < Len(subs)
    /\ CueStart(i + 1) < CueEnd(i)
    /\ req.slot = CueStart(i + 1) - CueStart(i)
    /\ req.slot < CueEnd(i) - CueStart(i)

\* C16: when the time-compression raises, the segment appended is the
\* original audio cut to exactly the slot, and the job goes on.
C16_PanicFallback ==
    \A k \in SpeechIdx :
        final_audio[k].fit = "panic" =>
            /\ RawLen(k) > SlotAt(final_audio[k].cue)
            /\ final_audio[k].len = SlotAt(final_audio[k].cue)
            /\ pc # "failed"

\* C16 witness: the job is done; a cue whose compression raised was followed
\* by another spoken cue.
C16_Witness ==
    /\ pc = "done"
    /\ \E k, m \in SpeechIdx : k < m /\ final_audio[k].fit = "panic"

\* C19: the cache holds only audio of successful synthesis calls; the
\* fallback step leaves the cache as it is; a cue whose key the cache does not
\* hold starts a fresh round of attempts.
C19_FallbackNotCached ==
    /\ [](\A key \in DOMAIN cache : cache[key].kind = "tts")
    /\ [][AttemptsExhausted => cache' = cache]_vars
    /\ [][(AtCue /\ SlotDuration > 0 /\ CacheKey \notin DOMAIN cache) =>
              pc' = "tts" /\ attempt' = 0]_vars

\* C19 witness: the first cue got the fallback silence, and the first call
\* for the second cue, which has the same key, is in flight.
C19_Witness ==
    /\ pc = "tts" /\ attempt = 0 /\ i = 1
    /\ CueKey(0) = CueKey(1)
    /\ \E k \in SpeechOf(0) : final_audio[k].src = "silent"

\* C14 as stated: the wait after a failed attempt is strictly longer than
\* the wait after the failed attempt before it.
C14_BackoffIncreases ==
    \A k \in 1..(Len(slept) - 1) : slept[k + 1] > slept[k]

\* C14 as amended: generate_tts waits after every failed attempt, the last
\* included, and every wait is the same RETRY_DELAY seconds.
C14_BackoffConstant ==
    /\ \A k \in DOMAIN slept : slept[k] = RETRY_DELAY
    /\ Len(slept) <= RETRY_COUNT
    /\ pc = "sleep" => Len(slept) = attempt + 1
    /\ pc = "tts" => Len(slept) = attempt

\* C14 witness: all three attempts of a request have failed and been waited
\* after.
C14_Witness ==
    /\ pc = "sleep"
    /\ Len(slept) = RETRY_COUNT

\* C18: between any two consecutive progress updates of the cue loop more
\* than 3 seconds of clock time have passed, however many cues were processed
\* in between.
C18_Throttled ==
    \A k \in 1..(Len(ui_updates) - 1) :
        ui_updates[k + 1].now - ui_updates[k].now > UiInterval

\* C18 witness: two consecutive updates with two cues processed without an
\* update between them.
C18_Witness ==
    \E k \in 1..(Len(ui_updates) - 1) :
        ui_updates[k + 1].line - ui_updates[k].line > 2

\* C20: the rate is the step function of the density d = in_chars /
\* (in_slot / 1000): "+0%" iff d <= 15, "+20%" iff 15 < d <= 20, "+40%" iff
\* 20 < d <= 25, "+60%" iff d > 25.
C20_StepFunction ==
    out_rate # "" =>
        LET d == in_chars * 1000
            s == in_slot
        IN /\ out_rate = "+0%" <=> d <= 15 * s
           /\ out_rate = "+20%" <=> (15 * s < d /\ d <= 20 * s)
           /\ out_rate = "+40%" <=> (20 * s < d /\ d <= 25 * s)
           /\ out_rate = "+60%" <=> 25 * s < d

\* The rate chosen does not go down when the text gets longer in the same
\* slot, nor up when the slot gets longer for the same text.
RateMonotone ==
    out_rate # "" =>
        /\ \A c \in 1..in_chars :
              RatePercent(RateFor(c, in_slot)) <= RatePercent(out_rate)
        /\ \A s \in RateSlots :
              s >= in_slot =>
                  RatePercent(RateFor(in_chars, s)) <= RatePercent(out_rate)

\* C17: each job has its own cache, buffer and cursor.  Every entry of the
\* running job's cache was stored for one of its own earlier cues; a step of
\* the running job leaves the suspended job's locals as they are; and a job
\* is resumed with the buffer, cursor and cache it was suspended with.
C17_JobsIndependent ==
    /\ [](running \in JobIds =>
            \A key \in DOMAIN cache : \E n \in 0..(i - 1) : key = CueKey(n))
    /\ [][running' = running => jobs' = jobs]_vars
    /\ [][running' # running =>
            /\ final_audio' = jobs[running'].final_audio
            /\ current_timeline_pos' = jobs[running'].current_timeline_pos
            /\ cache' = jobs[running'].cache
            /\ jobs'[running].final_audio = final_audio
            /\ jobs'[running].current_timeline_pos = current_timeline_pos
            /\ jobs'[running].cache = cache]_vars

\* C17 witness: job 2 is awaiting the synthesis of its first cue although the
\* suspended job 1 has the audio for the same text, voice and rate in its
\* cache.
C17_Witness ==
    /\ running = 2
    /\ pc = "tts" /\ i = 0
    /\ Key(req.text, voice, req.rate_str) \in DOMAIN jobs[1].cache

====
